---- MODULE Spec2Model ----
(***************************************************************************)
(* Lane invasion sensor of the CARLA client (LaneInvasionSensor.cpp).      *)
(*                                                                         *)
(* LaneInvasionCallback::Tick is called by the episode once per world      *)
(* snapshot, possibly from several threads at once.  The only state the    *)
(* calls share is _bounds, an atomic shared pointer to the last committed  *)
(* Bounds {frame, corners[4]}.  Every call of Tick is a process here.  A   *)
(* step holds one access to _bounds (load, compare_exchange) and the       *)
(* thread-local tests that follow it up to the next access; the map        *)
(* queries and the user callback after a commit are a step of their own.   *)
(*                                                                         *)
(* Lengths are measured on an integer grid: one grid step is half of       *)
(* distance_threshold, so a displacement can be zero, non-zero but below   *)
(* the threshold (one step along an axis), or at/above the threshold.      *)
(***************************************************************************)
EXTENDS Integers, Sequences, FiniteSets

\* Number of calls of Tick the scheduler makes (all may overlap).
MaxTicks == 3

\* Number of calls of Listen and Stop made on the sensor (all may overlap).
MaxCalls == 4

Ticks == 1..MaxTicks
Calls == 1..MaxCalls
\* What the sensor can be attached to.
Parents == {"vehicle", "walker", "none"}
\* Frame numbers of the world snapshots; two calls may get the same frame.
Frames == 1..MaxTicks
\* The x coordinates of the vehicle's location, in grid steps.
Xs == {0, 1, 2}
\* Yaw angles (degrees) for which the rotation is exact on the grid.
Yaws == {0, 90}

\* The value of an empty shared pointer.
NoBounds == [id |-> 0, frame |-> 0, corners |-> <<>>]

\* part_000:98 distance_threshold = 10 * epsilon, in grid steps.
distance_threshold == 2

\* part_000:52 the bounding box captured at construction: centre offset
\* and half extents, in grid steps.
_parent_bounding_box == [location |-> <<0, 0, 0>>, extent |-> <<1, 1, 0>>]

VARIABLES
  _bounds,        \* the atomic slot: NoBounds or the committed Bounds
  pc,             \* position of every call of Tick
  snapshot,       \* the WorldSnapshot each call was given
  next,           \* local: the Bounds built by the call
  prev,           \* local: the Bounds last read from _bounds
  crossed_lanes,  \* local: the aggregated list of crossed markings
  delivered,      \* the events handed to the user callback, in order
  loaded,         \* history: what the load of line 90 returned
  replaced,       \* history: the value of the slot each commit overwrote
  queries,        \* history: the segments each call asked the map about
  commits,        \* history: the calls that wrote _bounds, in order
  retries,        \* history: failed compare_exchange calls of line 110
  raised,         \* history: how the user callback ended in each call
  logged          \* the calls whose exception the tick handler logged

\* LaneInvasionSensor and the tick handlers the episode holds for it
VARIABLES
  parent,         \* what GetParent() returns: a vehicle, another actor, none
  _callback_id,   \* the atomic id of the sensor's registration, 0 for none
  handlers,       \* the ids of the tick handlers registered in the episode
  registered,     \* the number of ids the episode has handed out
  call,           \* the calls of Listen and Stop: kind, position, locals
  sched,          \* history: the calls each call made to the episode
  alone,          \* history: no other call overlapped with the call
  entry           \* history: _callback_id and handlers when the call began

tick_vars == <<_bounds, pc, snapshot, next, prev, crossed_lanes, delivered,
               loaded, replaced, queries, commits, retries, raised, logged>>

sensor_vars == <<parent, _callback_id, handlers, registered, call, sched, alone, entry>>

vars == <<tick_vars, sensor_vars>>

----------------------------------------------------------------------------
\* geom::Location arithmetic

Add(a, b) == <<a[1] + b[1], a[2] + b[2], a[3] + b[3]>>
Sub(a, b) == <<a[1] - b[1], a[2] - b[2], a[3] - b[3]>>
SquaredLength(a) == a[1] * a[1] + a[2] * a[2] + a[3] * a[3]

\* (a).Length() < d for d >= 0, without the square root.
LengthBelow(a, d) == SquaredLength(a) < d * d

Cos(yaw) == CASE yaw = 0 -> 1 [] yaw = 90 -> 0 [] yaw = 180 -> -1 [] yaw = 270 -> 0
Sin(yaw) == CASE yaw = 0 -> 0 [] yaw = 90 -> 1 [] yaw = 180 -> 0 [] yaw = 270 -> -1

\* part_000:28-38
Rotate(yaw, location) ==
  <<Cos(yaw) * location[1] - Sin(yaw) * location[2],
    Sin(yaw) * location[1] + Cos(yaw) * location[2],
    location[3]>>

\* part_000:129-140.  The id stands for the identity of the freshly
\* allocated object: every call of Tick allocates its own.
MakeBounds(id, frame, transform) ==
  LET box == _parent_bounding_box
      location == Add(transform.location, box.location)
      yaw == transform.yaw
      ex == box.extent[1]
      ey == box.extent[2]
  IN [id |-> id, frame |-> frame,
      corners |-> << Add(location, Rotate(yaw, << ex,  ey, 0>>)),
                     Add(location, Rotate(yaw, <<-ex,  ey, 0>>)),
                     Add(location, Rotate(yaw, << ex, -ey, 0>>)),
                     Add(location, Rotate(yaw, <<-ex, -ey, 0>>)) >>]

----------------------------------------------------------------------------
\* The collaborators

\* The road map: marking "A" lies between x = 1 and x = 2 and exists only
\* on the side y > 0, marking "B" lies between x = 2 and x = 3 everywhere.
LaneMarkings == << [m |-> "A", pos |-> 1, everywhere |-> FALSE],
                   [m |-> "B", pos |-> 2, everywhere |-> TRUE] >>

Reverse(s) == [i \in 1..Len(s) |-> s[Len(s) + 1 - i]]

\* Map::CalculateCrossedLanes(origin, destination): the markings the
\* segment crosses, in the order in which it crosses them.
CalculateCrossedLanes(origin, destination) ==
  LET lo == IF origin[1] <= destination[1] THEN origin[1] ELSE destination[1]
      hi == IF origin[1] <= destination[1] THEN destination[1] ELSE origin[1]
      Hit(l) == /\ lo <= l.pos
                /\ l.pos < hi
                /\ (l.everywhere \/ origin[2] > 0)
      ascending == SelectSeq(LaneMarkings, Hit)
      names == [i \in 1..Len(ascending) |-> ascending[i].m]
  IN IF origin[1] <= destination[1] THEN names ELSE Reverse(names)

\* AtomicSharedPtr::compare_exchange(&expected, desired) on a slot holding
\* current: pointers are compared, not the objects they point to.
CompareExchange(current, expected, desired) ==
  IF current.id = expected.id
  THEN [ok |-> TRUE, slot |-> desired, expected |-> expected]
  ELSE [ok |-> FALSE, slot |-> current, expected |-> current]

----------------------------------------------------------------------------
\* The world snapshots the scheduler can hand to Tick.  A snapshot that does
\* not contain the parent carries no transform.
Absent(frame) == [frame |-> frame, present |-> FALSE,
                  transform |-> [location |-> <<0, 0, 0>>, yaw |-> 0]]

WorldSnapshots ==
  { Absent(f) : f \in Frames } \cup
  [frame : Frames, present : {TRUE},
   transform : [location : {<<x, 0, 0>> : x \in Xs}, yaw : Yaws]]

\* WorldSnapshot::GetFrame() and GetTimestamp().frame read the same field.
GetFrame(s) == s.frame

\* part_000:150 before any call: no registration, no handler in the
\* episode, the sensor attached to p.
SensorInit(p) ==
  /\ parent = p
  /\ _callback_id = 0
  /\ handlers = {}
  /\ registered = 0
  /\ call = [c \in Calls |-> [kind |-> "none", pc |-> "idle", callback_id |-> 0, previous |-> 0]]
  /\ sched = [c \in Calls |-> <<>>]
  /\ alone = [c \in Calls |-> TRUE]
  /\ entry = [c \in Calls |-> [id |-> 0, handlers |-> {}]]

\* A LaneInvasionCallback as Listen constructs it.
TickInit ==
  /\ _bounds = NoBounds
  /\ pc = [t \in Ticks |-> "idle"]
  /\ snapshot = [t \in Ticks |-> Absent(1)]
  /\ next = [t \in Ticks |-> NoBounds]
  /\ prev = [t \in Ticks |-> NoBounds]
  /\ crossed_lanes = [t \in Ticks |-> <<>>]
  /\ delivered = <<>>
  /\ loaded = [t \in Ticks |-> NoBounds]
  /\ replaced = [t \in Ticks |-> NoBounds]
  /\ queries = [t \in Ticks |-> <<>>]
  /\ commits = <<>>
  /\ retries = [t \in Ticks |-> 0]
  /\ raised = [t \in Ticks |-> "none"]
  /\ logged = {}

\* A sensor attached to a vehicle and the callback object of a registration.
Init == TickInit /\ SensorInit("vehicle")

\* A sensor attached to anything, before its first call of Listen.
InitSensor == TickInit /\ \E p \in Parents : SensorInit(p)

----------------------------------------------------------------------------
\* LaneInvasionCallback::Tick, part_000:82-127

\* AfterFrame without the test of line 107: the loop goes straight to the
\* compare_exchange.
AfterFrameUntested(n, p) == "exchange"

\* AfterFrame with > for >= in line 107: an equal frame is not stale.
AfterFrameEqualPasses(n, p) == IF p.frame > n.frame THEN "done" ELSE "exchange"

\* Lines 107-109, the test at the head of the do-while loop: return when
\* the Bounds read from the slot are not older than next, else go on to
\* the compare_exchange of line 110.
AfterFrame(n, p) == IF p.frame >= n.frame THEN "done" ELSE "exchange"

\* AfterDistance with the comparison of line 100 turned round: return when
\* a corner moved by the threshold or more.
AfterDistanceInverted(n, p) ==
  IF \E i \in 1..4 : ~LengthBelow(Sub(n.corners[i], p.corners[i]), distance_threshold)
  THEN "done"
  ELSE AfterFrame(n, p)

\* Lines 98-103: return as soon as one corner moved less than the
\* threshold, else go on to the loop.
AfterDistance(n, p) ==
  IF \E i \in 1..4 : LengthBelow(Sub(n.corners[i], p.corners[i]), distance_threshold)
  THEN "done"
  ELSE AfterFrame(n, p)

\* TickLoad without the test of lines 85-87: the transform of a missing
\* parent is used all the same.
TickLoadUnchecked(t, s) ==
  /\ pc[t] = "idle"
  /\ \A u \in Ticks : u < t => pc[u] # "idle"
  /\ snapshot' = [snapshot EXCEPT ![t] = s]
  /\ LET n == MakeBounds(t, GetFrame(s), s.transform)
     IN /\ next' = [next EXCEPT ![t] = n]
        /\ prev' = [prev EXCEPT ![t] = _bounds]
        /\ loaded' = [loaded EXCEPT ![t] = _bounds]
        /\ pc' = [pc EXCEPT ![t] = IF _bounds = NoBounds
                                   THEN "first"
                                   ELSE AfterDistance(n, _bounds)]
  /\ UNCHANGED <<_bounds, crossed_lanes, delivered, replaced, queries, commits, retries>>
  /\ UNCHANGED <<raised, logged>>
  /\ UNCHANGED sensor_vars

\* Lines 84-90 and, with a Bounds loaded, 93-109: look the parent up and
\* return without it; otherwise build next and load _bounds into prev.
TickLoad(t, s) ==
  /\ pc[t] = "idle"
  /\ \A u \in Ticks : u < t => pc[u] # "idle"
  /\ snapshot' = [snapshot EXCEPT ![t] = s]
  /\ IF ~s.present
     THEN /\ pc' = [pc EXCEPT ![t] = "done"]
          /\ UNCHANGED <<next, prev, loaded>>
     ELSE LET n == MakeBounds(t, GetFrame(s), s.transform)
          IN /\ next' = [next EXCEPT ![t] = n]
             /\ prev' = [prev EXCEPT ![t] = _bounds]
             /\ loaded' = [loaded EXCEPT ![t] = _bounds]
             /\ pc' = [pc EXCEPT ![t] = IF _bounds = NoBounds
                                        THEN "first"
                                        ELSE AfterDistance(n, _bounds)]
  /\ UNCHANGED <<_bounds, crossed_lanes, delivered, replaced, queries, commits, retries>>
  /\ UNCHANGED <<raised, logged>>
  /\ UNCHANGED sensor_vars

\* TickFirst returning on prev == nullptr without installing next.
TickFirstInstallsNothing(t) ==
  /\ pc[t] = "first"
  /\ pc' = [pc EXCEPT ![t] = "done"]
  /\ UNCHANGED <<_bounds, snapshot, next, prev, crossed_lanes, delivered, loaded,
                 replaced, queries, commits, retries>>
  /\ UNCHANGED <<raised, logged>>
  /\ UNCHANGED sensor_vars

\* TickFirst returning after a failed compare_exchange as well: the call
\* that lost the race for the empty slot does nothing more.
TickFirstLoserReturns(t) ==
  /\ pc[t] = "first"
  /\ LET r == CompareExchange(_bounds, prev[t], next[t])
     IN /\ _bounds' = r.slot
        /\ prev' = [prev EXCEPT ![t] = r.expected]
        /\ pc' = [pc EXCEPT ![t] = "done"]
        /\ IF r.ok
           THEN /\ commits' = Append(commits, t)
                /\ replaced' = [replaced EXCEPT ![t] = _bounds]
           ELSE UNCHANGED <<commits, replaced>>
  /\ UNCHANGED <<snapshot, next, crossed_lanes, delivered, loaded, queries, retries>>
  /\ UNCHANGED <<raised, logged>>
  /\ UNCHANGED sensor_vars

\* TickFirst without the return of line 94: after installing the first
\* Bounds the call goes on to the crossing check with them as prev.
TickFirstFallsThrough(t) ==
  /\ pc[t] = "first"
  /\ LET r == CompareExchange(_bounds, prev[t], next[t])
     IN /\ _bounds' = r.slot
        /\ IF r.ok
           THEN /\ prev' = [prev EXCEPT ![t] = next[t]]
                /\ pc' = [pc EXCEPT ![t] = "lanes"]
                /\ commits' = Append(commits, t)
                /\ replaced' = [replaced EXCEPT ![t] = _bounds]
           ELSE /\ prev' = [prev EXCEPT ![t] = r.expected]
                /\ pc' = [pc EXCEPT ![t] = AfterDistance(next[t], r.expected)]
                /\ UNCHANGED <<commits, replaced>>
  /\ UNCHANGED <<snapshot, next, crossed_lanes, delivered, loaded, queries, retries>>
  /\ UNCHANGED <<raised, logged>>
  /\ UNCHANGED sensor_vars

\* Lines 93-95 with prev == nullptr: install next as the first Bounds and
\* return, or take over the Bounds another call installed meanwhile and
\* run the tests of lines 98-109 on them.
TickFirst(t) ==
  /\ pc[t] = "first"
  /\ LET r == CompareExchange(_bounds, prev[t], next[t])
     IN /\ _bounds' = r.slot
        /\ prev' = [prev EXCEPT ![t] = r.expected]
        /\ IF r.ok
           THEN /\ pc' = [pc EXCEPT ![t] = "done"]
                /\ commits' = Append(commits, t)
                /\ replaced' = [replaced EXCEPT ![t] = _bounds]
           ELSE /\ pc' = [pc EXCEPT ![t] = AfterDistance(next[t], r.expected)]
                /\ UNCHANGED <<commits, replaced>>
  /\ UNCHANGED <<snapshot, next, crossed_lanes, delivered, loaded, queries, retries>>
  /\ UNCHANGED <<raised, logged>>
  /\ UNCHANGED sensor_vars

\* TickExchange trying first against an empty expected pointer instead of
\* prev: the first compare_exchange of a call fails whatever the slot holds.
TickExchangeStaleExpected(t) ==
  /\ pc[t] = "exchange"
  /\ LET r == CompareExchange(_bounds, IF retries[t] = 0 THEN NoBounds ELSE prev[t], next[t])
     IN /\ _bounds' = r.slot
        /\ prev' = [prev EXCEPT ![t] = r.expected]
        /\ IF r.ok
           THEN /\ pc' = [pc EXCEPT ![t] = "lanes"]
                /\ commits' = Append(commits, t)
                /\ replaced' = [replaced EXCEPT ![t] = _bounds]
                /\ UNCHANGED retries
           ELSE /\ pc' = [pc EXCEPT ![t] = AfterFrame(next[t], r.expected)]
                /\ retries' = [retries EXCEPT ![t] = @ + 1]
                /\ UNCHANGED <<commits, replaced>>
  /\ UNCHANGED <<snapshot, next, crossed_lanes, delivered, loaded, queries>>
  /\ UNCHANGED <<raised, logged>>
  /\ UNCHANGED sensor_vars

\* TickExchange without the loop: a failed compare_exchange ends the call.
TickExchangeOnce(t) ==
  /\ pc[t] = "exchange"
  /\ LET r == CompareExchange(_bounds, prev[t], next[t])
     IN /\ _bounds' = r.slot
        /\ prev' = [prev EXCEPT ![t] = r.expected]
        /\ IF r.ok
           THEN /\ pc' = [pc EXCEPT ![t] = "lanes"]
                /\ commits' = Append(commits, t)
                /\ replaced' = [replaced EXCEPT ![t] = _bounds]
                /\ UNCHANGED retries
           ELSE /\ pc' = [pc EXCEPT ![t] = "done"]
                /\ retries' = [retries EXCEPT ![t] = @ + 1]
                /\ UNCHANGED <<commits, replaced>>
  /\ UNCHANGED <<snapshot, next, crossed_lanes, delivered, loaded, queries>>
  /\ UNCHANGED <<raised, logged>>
  /\ UNCHANGED sensor_vars

\* TickExchange with the result of compare_exchange ignored: the call goes
\* on to the crossing check whether or not it committed.
TickExchangeUnchecked(t) ==
  /\ pc[t] = "exchange"
  /\ LET r == CompareExchange(_bounds, prev[t], next[t])
     IN /\ _bounds' = r.slot
        /\ prev' = [prev EXCEPT ![t] = r.expected]
        /\ pc' = [pc EXCEPT ![t] = "lanes"]
        /\ IF r.ok
           THEN /\ commits' = Append(commits, t)
                /\ replaced' = [replaced EXCEPT ![t] = _bounds]
                /\ UNCHANGED retries
           ELSE /\ retries' = [retries EXCEPT ![t] = @ + 1]
                /\ UNCHANGED <<commits, replaced>>
  /\ UNCHANGED <<snapshot, next, crossed_lanes, delivered, loaded, queries>>
  /\ UNCHANGED <<raised, logged>>
  /\ UNCHANGED sensor_vars

\* Line 110: commit next if the slot still holds prev, else reload prev and
\* repeat the test of lines 107-109.
TickExchange(t) ==
  /\ pc[t] = "exchange"
  /\ LET r == CompareExchange(_bounds, prev[t], next[t])
     IN /\ _bounds' = r.slot
        /\ prev' = [prev EXCEPT ![t] = r.expected]
        /\ IF r.ok
           THEN /\ pc' = [pc EXCEPT ![t] = "lanes"]
                /\ commits' = Append(commits, t)
                /\ replaced' = [replaced EXCEPT ![t] = _bounds]
                /\ UNCHANGED retries
           ELSE /\ pc' = [pc EXCEPT ![t] = AfterFrame(next[t], r.expected)]
                /\ retries' = [retries EXCEPT ![t] = @ + 1]
                /\ UNCHANGED <<commits, replaced>>
  /\ UNCHANGED <<snapshot, next, crossed_lanes, delivered, loaded, queries>>
  /\ UNCHANGED <<raised, logged>>
  /\ UNCHANGED sensor_vars

\* CrossedFrom inserting at the front of the list in line 116.
RECURSIVE CrossedFromPrepending(_, _, _, _)
CrossedFromPrepending(i, acc, p, n) ==
  IF i > 4 THEN acc
  ELSE CrossedFromPrepending(i + 1,
         CalculateCrossedLanes(p.corners[i], n.corners[i]) \o acc, p, n)

\* The loop of lines 114-117 from corner i on: acc with the map's answer
\* for every remaining corner appended.
RECURSIVE CrossedFrom(_, _, _, _)
CrossedFrom(i, acc, p, n) ==
  IF i > 4 THEN acc
  ELSE CrossedFrom(i + 1, acc \o CalculateCrossedLanes(p.corners[i], n.corners[i]), p, n)

\* Lines 120-125: the event handed to the user callback.
LaneInvasionEvent(t, s, lanes) ==
  [frame |-> s.frame, transform |-> s.transform,
   crossed_lane_markings |-> lanes, tick |-> t]

\* What the user callback can do when it is called: return, throw an
\* exception derived from std::exception, or throw anything else.
CallbackOutcomes == {"returns", "std::exception", "other"}

\* Lines 169-173, the handler Listen registers around Tick: its catch
\* clause takes what derives from std::exception, and logs it.
HandlerCatches(o) == o = "std::exception"

\* Where a call of the handler ends after the callback ended with o: it
\* returns to the episode, or the exception leaves the handler.
AfterCallback(o) == IF o = "returns" \/ HandlerCatches(o) THEN "done" ELSE "escaped"

\* TickLanes without the test of line 119: the callback is called with an
\* empty list too.
TickLanesAlwaysCalls(t) ==
  /\ pc[t] = "lanes"
  /\ LET lanes == CrossedFrom(1, <<>>, prev[t], next[t])
     IN /\ crossed_lanes' = [crossed_lanes EXCEPT ![t] = lanes]
        /\ delivered' = Append(delivered, LaneInvasionEvent(t, snapshot[t], lanes))
        /\ \E o \in CallbackOutcomes :
             /\ raised' = [raised EXCEPT ![t] = o]
             /\ logged' = IF HandlerCatches(o) THEN logged \cup {t} ELSE logged
             /\ pc' = [pc EXCEPT ![t] = AfterCallback(o)]
  /\ queries' = [queries EXCEPT ![t] =
                   [i \in 1..4 |-> <<prev[t].corners[i], next[t].corners[i]>>]]
  /\ UNCHANGED <<_bounds, snapshot, next, prev, loaded, replaced, commits, retries>>
  /\ UNCHANGED sensor_vars

\* Lines 113-126: ask the map about the path of every corner and call the
\* user callback if a marking was crossed.
TickLanes(t) ==
  /\ pc[t] = "lanes"
  /\ LET lanes == CrossedFrom(1, <<>>, prev[t], next[t])
     IN /\ crossed_lanes' = [crossed_lanes EXCEPT ![t] = lanes]
        /\ IF lanes # <<>>
           THEN /\ delivered' = Append(delivered, LaneInvasionEvent(t, snapshot[t], lanes))
                /\ \E o \in CallbackOutcomes :
                     /\ raised' = [raised EXCEPT ![t] = o]
                     /\ logged' = IF HandlerCatches(o) THEN logged \cup {t} ELSE logged
                     /\ pc' = [pc EXCEPT ![t] = AfterCallback(o)]
           ELSE /\ pc' = [pc EXCEPT ![t] = "done"]
                /\ UNCHANGED <<delivered, raised, logged>>
  /\ queries' = [queries EXCEPT ![t] =
                   [i \in 1..4 |-> <<prev[t].corners[i], next[t].corners[i]>>]]
  /\ UNCHANGED <<_bounds, snapshot, next, prev, loaded, replaced, commits, retries>>
  /\ UNCHANGED sensor_vars

Next ==
  \/ \E t \in Ticks, s \in WorldSnapshots : TickLoad(t, s)
  \/ \E t \in Ticks : TickFirst(t)
  \/ \E t \in Ticks : TickExchange(t)
  \/ \E t \in Ticks : TickLanes(t)

Spec == Init /\ [][Next]_vars

\* The step of a call of Tick that was entered and is not over.
TickStep(t) == TickFirst(t) \/ TickExchange(t) \/ TickLanes(t)

\* Every thread inside Tick keeps running: a call that can take a step
\* takes it.
FairSpec == Spec /\ \A t \in Ticks : WF_vars(TickStep(t))

----------------------------------------------------------------------------
\* LaneInvasionSensor::Listen and ::Stop, part_000:150-197.  The episode is
\* alive throughout: GetEpisode().Lock() and TryLock() return it.

\* Episode::RegisterOnTickEvent: the handler gets a fresh id, never 0.
RegisterOnTickEvent(hs, n) == [id |-> n + 1, handlers |-> hs \cup {n + 1}]

\* Episode::RemoveOnTickEvent(id).
RemoveOnTickEvent(hs, id) == hs \ {id}

InProgress(c) == call[c].pc \notin {"idle", "done"}

\* The history written when call c begins.
Begins(c) ==
  /\ call[c].pc = "idle"
  /\ \A d \in Calls : d < c => call[d].pc # "idle"
  /\ alone' = [d \in Calls |->
                 IF d = c THEN \A x \in Calls : ~InProgress(x)
                 ELSE IF InProgress(d) THEN FALSE ELSE alone[d]]
  /\ entry' = [entry EXCEPT ![c] = [id |-> _callback_id, handlers |-> handlers]]

\* ListenRegister without the test of lines 153-156.
ListenRegisterAnyParent(c) ==
  /\ Begins(c)
  /\ LET r == RegisterOnTickEvent(handlers, registered)
     IN /\ handlers' = r.handlers
        /\ registered' = r.id
        /\ sched' = [sched EXCEPT ![c] = Append(@, <<"register", r.id>>)]
        /\ call' = [call EXCEPT ![c] = [kind |-> "Listen", pc |-> "exchange",
                                        callback_id |-> r.id, previous |-> 0]]
  /\ UNCHANGED <<parent, _callback_id>>
  /\ UNCHANGED tick_vars

\* Lines 150-174: without a vehicle as parent log and return; otherwise
\* build the callback object and register its handler with the episode.
ListenRegister(c) ==
  /\ Begins(c)
  /\ IF parent # "vehicle"
     THEN /\ call' = [call EXCEPT ![c] = [kind |-> "Listen", pc |-> "done",
                                          callback_id |-> 0, previous |-> 0]]
          /\ UNCHANGED <<handlers, registered, sched>>
     ELSE LET r == RegisterOnTickEvent(handlers, registered)
          IN /\ handlers' = r.handlers
             /\ registered' = r.id
             /\ sched' = [sched EXCEPT ![c] = Append(@, <<"register", r.id>>)]
             /\ call' = [call EXCEPT ![c] = [kind |-> "Listen", pc |-> "exchange",
                                             callback_id |-> r.id, previous |-> 0]]
  /\ UNCHANGED <<parent, _callback_id>>
  /\ UNCHANGED tick_vars

\* ListenExchange with the old id forgotten: the new id is stored, not
\* exchanged, and nothing is removed.
ListenExchangeStores(c) ==
  /\ call[c].kind = "Listen"
  /\ call[c].pc = "exchange"
  /\ _callback_id' = call[c].callback_id
  /\ call' = [call EXCEPT ![c].previous = 0, ![c].pc = "done"]
  /\ UNCHANGED <<parent, handlers, registered, sched, alone, entry>>
  /\ UNCHANGED tick_vars

\* Lines 177-180: put the new id into _callback_id and take the old one.
ListenExchange(c) ==
  /\ call[c].kind = "Listen"
  /\ call[c].pc = "exchange"
  /\ _callback_id' = call[c].callback_id
  /\ call' = [call EXCEPT ![c].previous = _callback_id,
                          ![c].pc = IF _callback_id # 0 THEN "remove" ELSE "done"]
  /\ UNCHANGED <<parent, handlers, registered, sched, alone, entry>>
  /\ UNCHANGED tick_vars

\* ListenRemove handing the new id, not the old one, to RemoveOnTickEvent.
ListenRemoveNew(c) ==
  /\ call[c].kind = "Listen"
  /\ call[c].pc = "remove"
  /\ handlers' = RemoveOnTickEvent(handlers, call[c].callback_id)
  /\ sched' = [sched EXCEPT ![c] = Append(@, <<"remove", call[c].callback_id>>)]
  /\ call' = [call EXCEPT ![c].pc = "done"]
  /\ UNCHANGED <<parent, _callback_id, registered, alone, entry>>
  /\ UNCHANGED tick_vars

\* Line 181: remove the handler of the old id.
ListenRemove(c) ==
  /\ call[c].kind = "Listen"
  /\ call[c].pc = "remove"
  /\ handlers' = RemoveOnTickEvent(handlers, call[c].previous)
  /\ sched' = [sched EXCEPT ![c] = Append(@, <<"remove", call[c].previous>>)]
  /\ call' = [call EXCEPT ![c].pc = "done"]
  /\ UNCHANGED <<parent, _callback_id, registered, alone, entry>>
  /\ UNCHANGED tick_vars

\* StopExchange with load() for exchange(0) in line 188: the id is read
\* and not reset.
StopExchangeKeepsId(c) ==
  /\ Begins(c)
  /\ call' = [call EXCEPT ![c] = [kind |-> "Stop", callback_id |-> 0,
                                  previous |-> _callback_id,
                                  pc |-> IF _callback_id # 0 THEN "remove" ELSE "done"]]
  /\ UNCHANGED <<parent, _callback_id, handlers, registered, sched>>
  /\ UNCHANGED tick_vars

\* Lines 188-194: put 0 into _callback_id and take the old id.
StopExchange(c) ==
  /\ Begins(c)
  /\ _callback_id' = 0
  /\ call' = [call EXCEPT ![c] = [kind |-> "Stop", callback_id |-> 0,
                                  previous |-> _callback_id,
                                  pc |-> IF _callback_id # 0 THEN "remove" ELSE "done"]]
  /\ UNCHANGED <<parent, handlers, registered, sched>>
  /\ UNCHANGED tick_vars

\* StopRemove without the call of line 195.
StopRemoveSkipped(c) ==
  /\ call[c].kind = "Stop"
  /\ call[c].pc = "remove"
  /\ call' = [call EXCEPT ![c].pc = "done"]
  /\ UNCHANGED <<parent, _callback_id, handlers, registered, sched, alone, entry>>
  /\ UNCHANGED tick_vars

\* Line 195: remove the handler of the old id.
StopRemove(c) ==
  /\ call[c].kind = "Stop"
  /\ call[c].pc = "remove"
  /\ handlers' = RemoveOnTickEvent(handlers, call[c].previous)
  /\ sched' = [sched EXCEPT ![c] = Append(@, <<"remove", call[c].previous>>)]
  /\ call' = [call EXCEPT ![c].pc = "done"]
  /\ UNCHANGED <<parent, _callback_id, registered, alone, entry>>
  /\ UNCHANGED tick_vars

SensorNext ==
  \/ \E c \in Calls : ListenRegister(c)
  \/ \E c \in Calls : ListenExchange(c)
  \/ \E c \in Calls : ListenRemove(c)
  \/ \E c \in Calls : StopExchange(c)
  \/ \E c \in Calls : StopRemove(c)

SensorSpec == InitSensor /\ [][SensorNext]_vars

----------------------------------------------------------------------------
\* Vocabulary of the properties

Started(t) == pc[t] # "idle"
\* The call is over: it returned, or an exception left the handler.
Done(t) == pc[t] \in {"done", "escaped"}
Present(t) == Started(t) /\ snapshot[t].present

\* The call wrote its Bounds into the slot.
Committed(t) == \E i \in 1..Len(commits) : commits[i] = t
\* The call installed the first Bounds.
Baseline(t) == Committed(t) /\ replaced[t] = NoBounds
\* The call replaced a Bounds by its own.
Advanced(t) == Committed(t) /\ replaced[t] # NoBounds

\* The positions in delivered of the events of a call.
EventsOf(t) == {i \in 1..Len(delivered) : delivered[i].tick = t}

Displacement(n, p, i) == Sub(n.corners[i], p.corners[i])
AllBelow(n, p) == \A i \in 1..4 : LengthBelow(Displacement(n, p, i), distance_threshold)
AllMoved(n, p) == \A i \in 1..4 : ~LengthBelow(Displacement(n, p, i), distance_threshold)

\* The map's answers for the four corner paths from p to n, corner 0 first.
Segment(p, n, i) == CalculateCrossedLanes(p.corners[i], n.corners[i])
Concatenated(p, n) ==
  Segment(p, n, 1) \o Segment(p, n, 2) \o Segment(p, n, 3) \o Segment(p, n, 4)

\* The slot holds what the last commit wrote.
SlotIsLastCommit ==
  _bounds = IF commits = <<>> THEN NoBounds ELSE next[commits[Len(commits)]]

\* The call had no effect outside itself.
NoEffect(t) ==
  /\ ~Committed(t)
  /\ queries[t] = <<>>
  /\ EventsOf(t) = {}

----------------------------------------------------------------------------
\* C1: the Bounds committed to _bounds have strictly increasing frame
\* numbers: every commit but the first replaces a Bounds of frame f, the one
\* the previous commit wrote, by a Bounds of a frame greater than f.
C1_Monotonic ==
  /\ SlotIsLastCommit
  /\ \A i \in 2..Len(commits) :
       /\ replaced[commits[i]] = next[commits[i - 1]]
       /\ replaced[commits[i]].frame < next[commits[i]].frame

\* Three commits in a row, one of them after a lost compare_exchange.
C1_Witness ==
  /\ Len(commits) = 3
  /\ \E t \in Ticks : retries[t] > 0 /\ Committed(t)

\* C2: two calls for frames N and N+1, both having loaded the same
\* committed Bounds of a frame below N and both with every corner moved,
\* leave the Bounds of frame N+1 in the slot once both are done (no call
\* for a frame of N+1 or more besides them has started).
C2_NoLostUpdate ==
  \A a, b \in Ticks :
    ( /\ a # b
      /\ Done(a) /\ Done(b)
      /\ Present(a) /\ Present(b)
      /\ loaded[a] # NoBounds
      /\ loaded[a] = loaded[b]
      /\ loaded[a].frame < next[a].frame
      /\ next[b].frame = next[a].frame + 1
      /\ AllMoved(next[a], loaded[a])
      /\ AllMoved(next[b], loaded[b])
      /\ \A u \in Ticks \ {a, b} : Started(u) => next[u].frame < next[b].frame )
    => _bounds = next[b]

\* The race in which the call for N commits first and the call for N+1
\* loses its first compare_exchange.
C2_Witness ==
  \E a, b \in Ticks :
    /\ a # b
    /\ Done(a) /\ Done(b)
    /\ loaded[a] # NoBounds
    /\ loaded[a] = loaded[b]
    /\ loaded[a].frame < next[a].frame
    /\ next[b].frame = next[a].frame + 1
    /\ AllMoved(next[a], loaded[a])
    /\ AllMoved(next[b], loaded[b])
    /\ Committed(a)
    /\ retries[b] > 0

\* C3: the call that installs the first Bounds returns at once: it asks the
\* map nothing and does not call the user callback; so the first call of a
\* run without overlap delivers no event.
C3_BaselineSilent ==
  /\ \A t \in Ticks :
       Baseline(t) => Done(t) /\ queries[t] = <<>> /\ EventsOf(t) = {}
  /\ (Done(1) /\ \A u \in Ticks : u > 1 => ~Started(u)) => delivered = <<>>

\* A first Bounds installed while another call was racing for the empty
\* slot, by a vehicle standing across marking B.
C3_Witness ==
  \E t, u \in Ticks :
    /\ t # u
    /\ Baseline(t)
    /\ snapshot[t].transform.location[1] = 2
    /\ loaded[u] = NoBounds
    /\ Present(u)
    /\ Done(u)

\* C4: only the call whose compare_exchange succeeded looks for crossings,
\* and it does so on the pair (replaced Bounds, own Bounds); every event
\* carries the frame of the Bounds its call committed, and no two events
\* carry the same frame.
C4_NoDoubleProcessing ==
  /\ \A t \in Ticks :
       /\ queries[t] # <<>> =>
            /\ Advanced(t)
            /\ queries[t] = [i \in 1..4 |-> <<replaced[t].corners[i], next[t].corners[i]>>]
       /\ (Done(t) /\ Advanced(t)) => queries[t] # <<>>
       /\ Cardinality(EventsOf(t)) <= 1
  /\ \A i \in 1..Len(delivered) :
       /\ Advanced(delivered[i].tick)
       /\ delivered[i].frame = next[delivered[i].tick].frame
  /\ \A i, j \in 1..Len(delivered) :
       i # j => delivered[i].frame # delivered[j].frame

\* Two events delivered, the second by a call that first lost a
\* compare_exchange to the first.
C4_Witness ==
  /\ Len(delivered) = 2
  /\ \E t \in Ticks : retries[t] > 0 /\ EventsOf(t) # {}

\* C5: a call that finds every corner less than the threshold away from
\* the corner of the Bounds it read has no effect: no commit, no map query,
\* no event.
C5_Stationary ==
  \A t \in Ticks :
    ( /\ Present(t)
      /\ pc[t] # "first"
      /\ prev[t] # NoBounds
      /\ retries[t] = 0
      /\ AllBelow(next[t], prev[t]) )
    => Done(t) /\ NoEffect(t)

\* A newer frame, one grid step away from the committed Bounds, on a path
\* that crosses a marking.
C5_Witness ==
  \E t \in Ticks :
    /\ Present(t)
    /\ Done(t)
    /\ prev[t] # NoBounds
    /\ retries[t] = 0
    /\ AllBelow(next[t], prev[t])
    /\ next[t].corners # prev[t].corners
    /\ prev[t].frame < next[t].frame
    /\ Concatenated(prev[t], next[t]) # <<>>

\* C6: a call that no other call interferes with, for a frame newer than
\* the committed one and with at least one corner moved by the threshold
\* or more, commits its Bounds and looks for crossings.
C6_CommitsUnlessAllBelow ==
  \A t \in Ticks :
    ( /\ Present(t)
      /\ Done(t)
      /\ loaded[t] # NoBounds
      /\ loaded[t].frame < next[t].frame
      /\ ~AllBelow(next[t], loaded[t])
      /\ \/ _bounds = loaded[t]
         \/ _bounds = next[t] /\ replaced[t] = loaded[t] )
    => /\ _bounds = next[t]
       /\ queries[t] # <<>>

\* C7: the markings of an event are the map's answers for the corner paths
\* from the replaced Bounds to the committed Bounds, corner 0 first, each
\* answer in its own order.
C7_EventMarkings ==
  \A i \in 1..Len(delivered) :
    LET t == delivered[i].tick
    IN delivered[i].crossed_lane_markings = Concatenated(replaced[t], next[t])

\* An event in which two corners crossed and their answers differ.
C7_Witness ==
  \E i \in 1..Len(delivered) :
    LET t == delivered[i].tick
    IN /\ Segment(replaced[t], next[t], 1) = <<"A", "B">>
       /\ Segment(replaced[t], next[t], 3) = <<"B">>
       /\ delivered[i].crossed_lane_markings = <<"A", "B", "B">>

\* C8: a call delivers at most one event, and a finished call has
\* delivered one exactly if it replaced a Bounds and the map reported a
\* crossing on one of the four paths; without a crossing the commit stands.
C8_EventIffCrossing ==
  \A t \in Ticks :
    /\ Cardinality(EventsOf(t)) <= 1
    /\ EventsOf(t) # {} => Advanced(t)
    /\ Done(t) =>
         (EventsOf(t) # {} <=>
            (Advanced(t) /\ Concatenated(replaced[t], next[t]) # <<>>))
    /\ (Done(t) /\ Advanced(t) /\ commits[Len(commits)] = t) => _bounds = next[t]

\* A finished call that replaced the Bounds, crossed nothing and whose
\* Bounds are in the slot.
C8_Witness ==
  \E t \in Ticks :
    /\ Done(t)
    /\ Advanced(t)
    /\ Concatenated(replaced[t], next[t]) = <<>>
    /\ EventsOf(t) = {}
    /\ _bounds = next[t]

\* C9: a call that reads from the slot a Bounds whose frame is not below
\* its own, at the load or after a failed compare_exchange, returns without
\* effect.
C9_StaleAbort ==
  \A t \in Ticks :
    ( /\ Present(t)
      /\ prev[t] # NoBounds
      /\ prev[t].frame >= next[t].frame )
    => Done(t) /\ NoEffect(t)

\* A call that passed the tests against the Bounds it loaded, lost its
\* compare_exchange to a call for the same frame and returned.
C9_Witness ==
  \E t \in Ticks :
    /\ Done(t)
    /\ retries[t] > 0
    /\ loaded[t].frame < next[t].frame
    /\ prev[t].frame = next[t].frame

\* C10: a call whose world snapshot does not hold the parent returns
\* without building a Bounds and without effect; the slot is as the
\* commits of the other calls left it.
C10_MissingActor ==
  /\ SlotIsLastCommit
  /\ \A t \in Ticks :
       (Started(t) /\ ~snapshot[t].present) =>
         /\ Done(t)
         /\ NoEffect(t)
         /\ next[t] = NoBounds
         /\ prev[t] = NoBounds

\* The parent is missing in the first snapshot: the slot stays empty.
C10_Witness ==
  /\ Done(1)
  /\ ~snapshot[1].present
  /\ _bounds = NoBounds
  /\ \A u \in Ticks : u > 1 => ~Started(u)

----------------------------------------------------------------------------
\* C11 as stated: once a call of Tick is over, _bounds holds a Bounds.
C11_NonEmptyAfterFirstTick ==
  (\E t \in Ticks : Done(t)) => _bounds # NoBounds

\* C11, amended: once a call of Tick whose world snapshot holds the parent
\* is over, _bounds holds a Bounds, in that state and in every later one.
C11_NonEmptyAfterPresentTick ==
  (\E t \in Ticks : Done(t) /\ Present(t)) => _bounds # NoBounds

\* The first call finds no parent, the second one does and is over.
C11_Witness ==
  /\ Done(1) /\ ~snapshot[1].present
  /\ Done(2) /\ snapshot[2].present
  /\ _bounds # NoBounds

\* C12: an exception the user callback raises is caught and logged by the
\* tick handler and does not reach the episode; the Bounds committed by
\* that call stay committed.
C12_SubscriberIsolated ==
  \A t \in Ticks :
    raised[t] \notin {"none", "returns"} =>
      /\ pc[t] = "done"
      /\ t \in logged
      /\ Committed(t)
      /\ \E i \in 1..Len(commits) : _bounds = next[commits[i]]

\* The position in commits of the Bounds a call started from: the Bounds it
\* loaded, or the first Bounds if it loaded an empty slot.
StartedFrom(t) ==
  IF loaded[t] = NoBounds THEN 1
  ELSE CHOOSE i \in 1..Len(commits) : commits[i] = loaded[t].id

\* The commits other calls made after the Bounds a call started from.
CommitsSince(t) == {i \in 1..Len(commits) : i > StartedFrom(t) /\ commits[i] # t}

\* C17: a call has lost at most as many compare_exchange calls of line 110
\* as other calls have committed since the Bounds it started from, a call
\* inside Tick can always take its next step whatever the other calls do,
\* and every call that was entered comes to its end.
C17_LockFree ==
  /\ [](\A t \in Ticks :
          /\ retries[t] <= Cardinality(CommitsSince(t))
          /\ (Started(t) /\ ~Done(t)) => ENABLED TickStep(t))
  /\ \A t \in Ticks : Started(t) ~> Done(t)

\* A call that lost the race for the empty slot and then a compare_exchange
\* of line 110, and committed at its second attempt.
C17_Witness ==
  \E t \in Ticks : loaded[t] = NoBounds /\ retries[t] = 1 /\ Advanced(t) /\ Done(t)

\* C18: whenever a call replaces a Bounds, also after failed attempts, the
\* replaced and the new Bounds do not have all four corners within the
\* threshold of each other.
C18_CommittedTransitionMoved ==
  \A t \in Ticks : Advanced(t) => ~AllBelow(next[t], replaced[t])

\* C19: of the calls that loaded an empty slot exactly one installs the
\* first Bounds; each of the others goes on with the installed Bounds as
\* prev and is treated like any call: it returns without effect if a corner
\* moved less than the threshold or its frame is not newer, and commits
\* otherwise.
C19_BaselineRace ==
  /\ Cardinality({t \in Ticks : Baseline(t)}) <= 1
  /\ \A t \in Ticks :
       ( /\ Present(t)
         /\ loaded[t] = NoBounds
         /\ pc[t] # "first"
         /\ ~Baseline(t) )
       => /\ prev[t] # NoBounds
          /\ \E u \in Ticks : Baseline(u)
          /\ Committed(t) => replaced[t].frame < next[t].frame
          /\ retries[t] = 0 =>
               /\ ~AllMoved(next[t], prev[t]) => Done(t) /\ NoEffect(t)
               /\ prev[t].frame >= next[t].frame => Done(t) /\ NoEffect(t)
               /\ (Done(t) /\ AllMoved(next[t], prev[t]) /\ prev[t].frame < next[t].frame)
                    => Advanced(t) /\ queries[t] # <<>>

\* Three calls loaded the empty slot; one installed the first Bounds, one
\* replaced them, one returned as stale.
C19_Witness ==
  /\ \A t \in Ticks : Present(t) /\ Done(t) /\ loaded[t] = NoBounds
  /\ \E t, u, v \in Ticks :
       /\ Baseline(t)
       /\ Advanced(u)
       /\ ~Committed(v) /\ AllMoved(next[v], prev[v])

----------------------------------------------------------------------------
\* Vocabulary of the claims about Listen and Stop.

\* No call of Listen or Stop is between its first and its last step.
Quiet == \A c \in Calls : ~InProgress(c)

\* Call c is over and no later call has begun.
Last(c) == call[c].pc = "done" /\ \A d \in Calls : d > c => call[d].pc = "idle"

\* Call c ran from its first to its last step with no other call in progress.
Sequential(c) == call[c].pc = "done" /\ alone[c]

\* The calls of RemoveOnTickEvent(id) made so far.
Removals(id) ==
  {x \in Calls \X (1..2) : x[2] <= Len(sched[x[1]]) /\ sched[x[1]][x[2]] = <<"remove", id>>}

\* C13 as stated: in every state, also inside a call of Listen, at most one
\* handler of the sensor is registered with the episode.
C13_AtMostOneAlways == Cardinality(handlers) <= 1

\* C13, amended: at most one handler is registered whenever no call of
\* Listen or Stop is in progress, and inside calls never more than one
\* plus the number of calls in progress.
C13_AtMostOneWhenQuiet ==
  /\ Quiet => Cardinality(handlers) <= 1
  /\ Cardinality(handlers) <= 1 + Cardinality({c \in Calls : InProgress(c)})

\* A call of Listen replaced a registered handler and is over: one handler
\* is registered, and the call had two registered before line 181.
C13_Witness ==
  /\ Quiet
  /\ Cardinality(handlers) = 1
  /\ \E c \in Calls :
       /\ call[c].kind = "Listen" /\ Sequential(c) /\ Last(c)
       /\ call[c].previous # 0
       /\ sched[c] = <<<<"register", call[c].callback_id>>, <<"remove", call[c].previous>>>>

\* C14: after two calls of Listen on a sensor attached to a vehicle, one
\* after the other, the only registered handler is the one of the second
\* call, _callback_id is its id, and the second call removed the handler
\* of the first.
C14_ListenTwice ==
  \A c \in Calls :
    ( /\ c + 1 \in Calls
      /\ parent = "vehicle"
      /\ call[c].kind = "Listen" /\ Sequential(c)
      /\ call[c + 1].kind = "Listen" /\ Sequential(c + 1) /\ Last(c + 1) )
    => /\ handlers = {call[c + 1].callback_id}
       /\ _callback_id = call[c + 1].callback_id
       /\ call[c].callback_id \notin {0, call[c + 1].callback_id}
       /\ call[c].callback_id \notin handlers
       /\ sched[c + 1] = <<<<"register", call[c + 1].callback_id>>,
                           <<"remove", call[c].callback_id>>>>

\* Two calls of Listen, one after the other, are all that happened.
C14_Witness ==
  /\ parent = "vehicle"
  /\ call[1].kind = "Listen" /\ Sequential(1)
  /\ call[2].kind = "Listen" /\ Sequential(2) /\ Last(2)
  /\ handlers = {2}

\* C15: a call of Stop that finds _callback_id = 0 calls nothing of the
\* episode and leaves _callback_id and the handlers as they were; a call
\* that finds an id calls RemoveOnTickEvent with that id and nothing else
\* and leaves _callback_id = 0; a call of Stop right after a call of Stop
\* finds 0.
C15_StopIdempotent ==
  \A c \in Calls :
    (call[c].kind = "Stop" /\ call[c].pc = "done") =>
      /\ call[c].previous = entry[c].id
      /\ sched[c] = IF entry[c].id = 0 THEN <<>> ELSE <<<<"remove", entry[c].id>>>>
      /\ (Sequential(c) /\ Last(c)) =>
           /\ _callback_id = 0
           /\ handlers = entry[c].handlers \ {entry[c].id}
      /\ (c > 1 /\ Sequential(c) /\ call[c - 1].kind = "Stop" /\ Sequential(c - 1)) =>
           /\ entry[c].id = 0
           /\ sched[c] = <<>>
           /\ Last(c) => handlers = entry[c].handlers

\* Listen, then Stop twice: the first Stop removed the handler, the second
\* called nothing.
C15_Witness ==
  /\ parent = "vehicle"
  /\ call[1].kind = "Listen" /\ Sequential(1)
  /\ call[2].kind = "Stop" /\ Sequential(2) /\ sched[2] = <<<<"remove", 1>>>>
  /\ call[3].kind = "Stop" /\ Sequential(3) /\ Last(3) /\ sched[3] = <<>>
  /\ handlers = {}
  /\ _callback_id = 0

\* C16: a call of Listen on a sensor whose parent is missing or not a
\* vehicle is over after its first step, registers nothing, and leaves
\* _callback_id and the registered handlers as it found them.
C16_NotAVehicle ==
  \A c \in Calls :
    (parent # "vehicle" /\ call[c].kind = "Listen") =>
      /\ call[c].pc = "done"
      /\ call[c].callback_id = 0
      /\ sched[c] = <<>>
      /\ registered = 0
      /\ Last(c) => _callback_id = entry[c].id /\ handlers = entry[c].handlers

\* Listen was called on a sensor attached to a walker and on one without
\* a parent.
C16_Witness ==
  /\ parent \in {"walker", "none"}
  /\ \E c \in Calls : call[c].kind = "Listen" /\ call[c].pc = "done" /\ Last(c)

\* C20: on a sensor attached to a vehicle, whenever all calls of Listen
\* and Stop that began are over, the registered handlers are exactly the
\* one of _callback_id, or none if _callback_id = 0; and no id is ever
\* handed to RemoveOnTickEvent twice, or before it was registered.
C20_NoLeak ==
  /\ Quiet => handlers = (IF _callback_id = 0 THEN {} ELSE {_callback_id})
  /\ \A id \in 0..MaxCalls :
       /\ Cardinality(Removals(id)) <= 1
       /\ Removals(id) # {} => id \in 1..registered

\* Four overlapping calls, Listen and Stop among them, are over and a
\* handler is registered.
C20_Witness ==
  /\ \A c \in Calls : call[c].pc = "done" /\ ~alone[c]
  /\ \E c, d \in Calls : call[c].kind = "Listen" /\ call[d].kind = "Stop"
  /\ _callback_id # 0
  /\ handlers = {_callback_id}

====
